---- MODULE Spec2Model ----
(***************************************************************************)
(* Model of the shell tool of packages/core/src/tools/shell.ts:            *)
(*   - the confirmation path of ShellToolInvocation (validation,           *)
(*     getConfirmationDetails, onConfirm / getPolicyUpdateOptions),        *)
(*     specification SpecPolicy;                                           *)
(*   - ShellToolInvocation.execute as a state machine over the JavaScript  *)
(*     event loop (one action per run-to-completion segment between two    *)
(*     awaits, plus the timers, the abort signals and the subprocess),     *)
(*     specification Spec;                                                 *)
(*   - the output callback of execute over several update intervals,       *)
(*     specification SpecStream;                                           *)
(*   - one request from validation through confirmation to the result of   *)
(*     execute, specification SpecRequest.                                 *)
(*                                                                         *)
(* A command is a sequence of whitespace-delimited tokens.                 *)
(*                                                                         *)
(* shell.ts uses fs, ApprovalMode, isCommandAllowed and                    *)
(* isShellInvocationAllowlisted without importing them; they are read as   *)
(* node:fs, the approval-mode enumeration and the helpers of shell-utils.  *)
(* getConfirmationDetails (lines 111-161) leaves two blocks unclosed at    *)
(* its blank lines 125-126; it is read with both blocks closed there, so   *)
(* that the else of line 139 belongs to the if of line 131 as written.     *)
(***************************************************************************)
EXTENDS Integers, Sequences, FiniteSets, TLC

VARIABLES
    \* ---- request and configuration (confirmation path)
    command,          \* params.command, a token sequence
    commandAllowed,   \* isCommandAllowed(params.command, config).allowed
    is_interactive,   \* config.isInteractive()
    approvalMode,     \* config.getApprovalMode()
    allowedTools,     \* config.getAllowedTools(), as the set of allowed roots
    shellType,        \* config.getShellConfiguration().shell
    parserReady,      \* initializeShellParsers() succeeded
    ppc,              \* position of the request in the confirmation path
    confirmation,     \* what getConfirmationDetails returned
    policyUpdate,     \* what the last onConfirm handed to the policy collaborator
    rules,            \* allow-rules persisted by the policy collaborator
    \* ---- execute
    is_background,    \* params.is_background
    timeoutMs,        \* config.getShellToolInactivityTimeout()
    collectBackgroundPids, \* !isWindows && supportsPosixBackground
    pathOk,           \* config.validatePathAccess(cwd) returns no error
    has_dir_path,     \* params.dir_path is given
    updateOutput,     \* the caller supplied an updateOutput sink
    pc,               \* position of execute
    now,              \* clock, in milliseconds
    signalAborted,    \* signal.aborted (the caller's signal)
    timeoutAborted,   \* timeoutController.signal.aborted
    combinedAborted,  \* combinedController.signal.aborted
    abortDispatches,  \* abort events dispatched on the combined signal
    cause,            \* which source made the combined signal abort
    listeners,        \* signals on which onAbort is registered
    timers,           \* deadlines of the pending inactivity timers
    timeoutTimer,     \* the handle kept in timeoutTimer (its deadline) or None
    bgTimer,          \* deadline of the pending background-delay timer or None
    bgRequests,       \* calls of ShellExecutionService.background(pid)
    bgRequestedAt,    \* time of the first such call, or None
    spawnedAt,        \* time at which the process id became known, or None
    pid,              \* process id returned by the execution service, or None
    proc,             \* the subprocess: "none", "running", "detached", "exited"
    result,           \* the resolved ShellExecutionResult, or NoResult
    evCount,          \* data and binary events delivered to the callback
    lastEvent,        \* type of the last event delivered to the callback
    tempFileExists,   \* the pid-report file exists
    readCount,        \* reads of the pid-report file
    ret,              \* what execute returned
    serviceCalls,     \* calls of ShellExecutionService.execute
    \* ---- the output callback
    isBinaryStream,   \* isBinaryStream (line 225)
    cumulativeOutput, \* cumulativeOutput (line 223), by its kind
    lastUpdateTime,   \* lastUpdateTime (line 224)
    sinkCount,        \* calls of updateOutput
    lastSink,         \* kind and time of the last call of updateOutput
    binarySeen,       \* a binary_detected or binary_progress event was received
    cbTrace,          \* effects of the last callback invocation, in order
    callbackThrows,   \* errors thrown by the callback into the execution service
    \* ---- the assembly of the result
    debugMode,        \* config.getDebugMode()
    summarize,        \* getSummarizeToolOutputConfig() has an entry for the tool
    exitStatus,       \* exit code and signal the process ends with
    pgrepLines,       \* lines of the pid-report file when it is read
    errorMessage,     \* result.error.message when the service fails, as tokens
    logged,           \* messages passed to debugLogger.error
    assembled,        \* llmContent, returnDisplayMessage, data, executionError
    \* ---- shell profile detection
    shellEnv,         \* process.env.SHELL: a path, or unset
    detected,         \* what detectShellProfileFromEnv returned
    \* ---- the CLI settings resolver
    settings,         \* settings.tools.shell
    resolver,         \* the version of the resolver: "shellConfig.ts" or "part_000"
    resolved          \* what the resolve functions returned

policyVars == <<command, commandAllowed, is_interactive, approvalMode, allowedTools, shellType,
                parserReady, ppc, confirmation, policyUpdate, rules>>
streamVars == <<isBinaryStream, cumulativeOutput, lastUpdateTime, sinkCount,
                lastSink, binarySeen, cbTrace>>
runInputs == <<debugMode, summarize, exitStatus, pgrepLines, errorMessage>>
shellVars == <<shellEnv, detected, settings, resolver, resolved>>
execVars == <<is_background, timeoutMs, collectBackgroundPids, pathOk,
              has_dir_path, updateOutput, serviceCalls, streamVars,
              callbackThrows, runInputs, logged, assembled,
              shellVars, pc, now,
              signalAborted, timeoutAborted, combinedAborted, abortDispatches,
              cause, listeners, timers, timeoutTimer, bgTimer, bgRequests,
              bgRequestedAt, spawnedAt, pid, proc, result, evCount, lastEvent,
              tempFileExists, readCount, ret>>
vars == <<policyVars, execVars>>

None == 0 - 1

(***************************************************************************)
(* Bounds                                                                  *)
(***************************************************************************)
MaxCmdLen == 3
MaxTicks == 5
MaxEvents == 2
MaxStreamTicks == 7

(***************************************************************************)
(* Commands                                                                *)
(***************************************************************************)
Tokens == {"ls", "rm", "-la", "|", "&&", ">", "sh-c"}
Operators == {"|", "&&", ">"}

RECURSIVE SeqsUpTo(_)
SeqsUpTo(n) ==
    IF n = 0 THEN {<<>>}
    ELSE LET shorter == SeqsUpTo(n - 1)
         IN shorter \cup {Append(s, t) : s \in {x \in shorter : Len(x) = n - 1}, t \in Tokens}

Commands == SeqsUpTo(MaxCmdLen)

RECURSIVE Dedup(_)
Dedup(s) ==
    IF s = <<>> THEN <<>>
    ELSE LET r == Dedup(SubSeq(s, 1, Len(s) - 1))
             last == s[Len(s)]
         IN IF \E i \in 1..Len(r) : r[i] = last THEN r ELSE Append(r, last)

RECURSIVE SplitSegments(_, _)
SplitSegments(cmd, seps) ==
    IF cmd = <<>> THEN << <<>> >>
    ELSE LET rest == SplitSegments(Tail(cmd), seps)
         IN IF Head(cmd) \in seps
              THEN << <<>> >> \o rest
              ELSE << <<Head(cmd)>> \o Head(rest) >> \o Tail(rest)

RECURSIVE SegmentNames(_)
SegmentNames(segs) ==
    IF segs = <<>> THEN <<>>
    ELSE (IF Head(segs) # <<>> /\ Head(Head(segs)) \notin Operators
            THEN <<Head(Head(segs))>> ELSE <<>>)
         \o SegmentNames(Tail(segs))

DefaultShell == "bash"

Separators(shell) == IF shell = "other" THEN {"|"} ELSE {"|", "&&"}

stripShellWrapper(cmd) ==
    IF cmd # <<>> /\ Head(cmd) = "sh-c" THEN Tail(cmd) ELSE cmd

getCommandRoots(cmd, shell) ==
    Dedup(SegmentNames(SplitSegments(cmd, Separators(shell))))

hasRedirection(cmd) == \E i \in 1..Len(cmd) : cmd[i] = ">"

parseCommandDetails(cmd) ==
    LET segs == SplitSegments(cmd, {"|", "&&"})
    IN [isNull |-> ~parserReady,
        hasError |-> \E i \in 1..Len(segs) :
                        segs[i] = <<>> \/ Head(segs[i]) \in Operators,
        details |-> SegmentNames(segs)]

isShellInvocationAllowlisted(cmd, allowed, shell) ==
    LET roots == getCommandRoots(cmd, shell)
    IN roots # <<>> /\ \A i \in 1..Len(roots) : roots[i] \in allowed

(***************************************************************************)
(* ShellTool.validateToolParamValues and the confirmation path             *)
(***************************************************************************)
validateToolParamValues_noRootCheck ==
    IF command = <<>> THEN "Command cannot be empty."
    ELSE IF ~commandAllowed THEN "Command is not allowed."
    ELSE IF has_dir_path /\ ~pathOk THEN "Path not in workspace."
    ELSE "ok"

validateToolParamValues ==
    IF command = <<>> THEN "Command cannot be empty."
    ELSE IF ~commandAllowed THEN "Command is not allowed."
    ELSE IF getCommandRoots(command, shellType) = <<>>
        THEN "Could not identify command root to obtain permission from user."
    ELSE IF has_dir_path /\ ~pathOk THEN "Path not in workspace."
    ELSE "ok"

isInvocationAllowlisted_inverted(cmd) ==
    IF allowedTools # {} THEN FALSE
    ELSE isShellInvocationAllowlisted(cmd, allowedTools, shellType)

isInvocationAllowlisted(cmd) ==
    IF allowedTools = {} THEN FALSE
    ELSE isShellInvocationAllowlisted(cmd, allowedTools, shellType)

NoConfirmation == [kind |-> "none", rootCommand |-> <<>>, rootCommands |-> <<>>]

ConfirmationDetails(display, cmd) ==
    [kind |-> "details", rootCommand |-> display,
     rootCommands |-> Dedup(getCommandRoots(cmd, DefaultShell))]

getConfirmationDetails_noYoloSkip ==
    LET cmd == stripShellWrapper(command)
        parsed == parseCommandDetails(cmd)
        failed == parsed.isNull \/ parsed.hasError \/ parsed.details = <<>>
        fallback == <<IF cmd # <<>> THEN Head(cmd) ELSE "shell command">>
                    \o (IF hasRedirection(cmd) THEN <<"redirection">> ELSE <<>>)
        display == IF failed THEN fallback ELSE <<>>
    IN IF ~is_interactive
         THEN IF isInvocationAllowlisted(cmd)
                THEN [NoConfirmation EXCEPT !.kind = "false"]
                ELSE ConfirmationDetails(display, cmd)
         ELSE IF parsed.isNull
                THEN [NoConfirmation EXCEPT !.kind = "threw"]
                ELSE ConfirmationDetails(parsed.details, cmd)

getConfirmationDetails ==
    LET cmd == stripShellWrapper(command)
        parsed == parseCommandDetails(cmd)
        failed == parsed.isNull \/ parsed.hasError \/ parsed.details = <<>>
        fallback == <<IF cmd # <<>> THEN Head(cmd) ELSE "shell command">>
                    \o (IF hasRedirection(cmd) THEN <<"redirection">> ELSE <<>>)
        display == IF failed THEN fallback ELSE <<>>
    IN IF ~is_interactive /\ approvalMode # "yolo"
         THEN IF isInvocationAllowlisted(cmd)
                THEN [NoConfirmation EXCEPT !.kind = "false"]
                ELSE ConfirmationDetails(display, cmd)
         ELSE IF parsed.isNull
                THEN [NoConfirmation EXCEPT !.kind = "threw"]
                ELSE ConfirmationDetails(parsed.details, cmd)

NoUpdate == [kind |-> "none", commandPrefix |-> <<>>]

getPolicyUpdateOptions_noFallback(outcome) ==
    LET cmd == stripShellWrapper(command)
        rootCommands == Dedup(getCommandRoots(cmd, shellType))
    IN IF outcome \in {"ProceedAlwaysAndSave", "ProceedAlways"} /\ Len(rootCommands) > 0
         THEN [kind |-> "roots", commandPrefix |-> rootCommands]
         ELSE NoUpdate

getPolicyUpdateOptions_anyProceed(outcome) ==
    LET cmd == stripShellWrapper(command)
        rootCommands == Dedup(getCommandRoots(cmd, shellType))
    IN IF outcome \in {"ProceedAlwaysAndSave", "ProceedAlways", "ProceedOnce"}
         THEN IF Len(rootCommands) > 0
                THEN [kind |-> "roots", commandPrefix |-> rootCommands]
                ELSE [kind |-> "raw", commandPrefix |-> command]
         ELSE NoUpdate

getPolicyUpdateOptions(outcome) ==
    LET cmd == stripShellWrapper(command)
        rootCommands == Dedup(getCommandRoots(cmd, shellType))
    IN IF outcome \in {"ProceedAlwaysAndSave", "ProceedAlways"}
         THEN IF Len(rootCommands) > 0
                THEN [kind |-> "roots", commandPrefix |-> rootCommands]
                ELSE [kind |-> "raw", commandPrefix |-> command]
         ELSE NoUpdate

Outcomes == {"ProceedOnce", "ProceedAlways", "ProceedAlwaysAndSave", "Cancel"}

publishPolicyUpdate(outcome) ==
    LET options == getPolicyUpdateOptions(outcome)
    IN /\ policyUpdate' = options
       /\ rules' = IF options.kind = "none" THEN rules
                   ELSE rules \cup {options.commandPrefix}

Build ==
    /\ ppc = "created"
    /\ ppc' = IF validateToolParamValues = "ok" THEN "built" ELSE "rejected"
    /\ UNCHANGED <<command, commandAllowed, is_interactive, approvalMode, allowedTools, shellType,
                   parserReady, confirmation, policyUpdate, rules>>
    /\ UNCHANGED execVars

ShouldConfirm ==
    /\ ppc = "built"
    /\ confirmation' = getConfirmationDetails
    /\ ppc' = CASE confirmation'.kind = "false" -> "allowed"
                [] confirmation'.kind = "threw" -> "failed"
                [] OTHER -> "asking"
    /\ UNCHANGED <<command, commandAllowed, is_interactive, approvalMode, allowedTools, shellType,
                   parserReady, policyUpdate, rules>>
    /\ UNCHANGED execVars

OnConfirm ==
    /\ ppc = "asking"
    /\ \E outcome \in Outcomes :
          /\ publishPolicyUpdate(outcome)
          /\ ppc' = outcome
    /\ UNCHANGED <<command, commandAllowed, is_interactive, approvalMode, allowedTools, shellType,
                   parserReady, confirmation>>
    /\ UNCHANGED execVars

(***************************************************************************)
(* ShellToolInvocation.execute                                             *)
(***************************************************************************)
BACKGROUND_DELAY_MS == 200

TickMs == BACKGROUND_DELAY_MS \div 2

TimeoutChoices == {0, TickMs, 3 * TickMs}

OUTPUT_UPDATE_INTERVAL_MS == 1000

\* texts the execution service may report as result.output: nothing, white
\* space only, and text
Outputs == {"", " ", "partial"}

\* String.prototype.trim on these texts
trim(s) ==
    CASE s \in {" ", "  "} -> ""
      [] s = " zsh " -> "zsh"
      [] s = " ag " -> "ag"
      [] OTHER -> s

NoResult == [resolved |-> FALSE, aborted |-> FALSE, backgrounded |-> FALSE,
             error |-> FALSE, pid |-> None, output |-> "",
             exitCode |-> None, signal |-> "none"]

\* exitCode is None for null and signal "none" for null
ShellExecutionResult(aborted, backgrounded, error, p, output) ==
    [resolved |-> TRUE, aborted |-> aborted, backgrounded |-> backgrounded,
     error |-> error, pid |-> p, output |-> output,
     exitCode |-> IF backgrounded THEN None ELSE exitStatus.code,
     signal |-> IF backgrounded THEN "none" ELSE exitStatus.signal]

\* the data field of a ToolResult (lines 345, 366-370); present is FALSE for
\* undefined
NoData == [present |-> FALSE, pid |-> None, command |-> <<>>, initialOutput |-> ""]

\* a ToolResult: llm is the kind of the first sentence of llmContent, minutes
\* the number it cites (whole part and first decimal), tail what follows the
\* first sentence, errorType the type of its error field
\* lines are the kinds of the lines of a completed run's message, outputLine,
\* errorLine and bgPids what three of them say, returnDisplay the kind of the
\* display text
ToolResult(llm, minutes, tail, errorType, p) ==
    [llm |-> llm, minutes |-> minutes, tail |-> tail, errorType |-> errorType,
     pid |-> p, lines |-> <<>>, outputLine |-> "", errorLine |-> <<>>,
     bgPids |-> <<>>, returnDisplay |-> "none", data |-> NoData]

NoRet == ToolResult("none", <<>>, "none", "none", None)

Terminal == pc \in {"returned", "threw"}

MicrotaskPending_withoutResult == pc = "awaitResult"

\* The continuation of line 314 is a microtask of the resolved result promise:
\* it runs once the result is there, and before any timer callback, signal or
\* I/O event is handled.
MicrotaskPending == pc = "awaitResult" /\ result.resolved

cancelledOnEntry_ignored == FALSE

\* the test of line 171
cancelledOnEntry == signalAborted

resetTimeout_armsAtZero ==
    IF timeoutMs < 0
      THEN UNCHANGED <<timers, timeoutTimer>>
      ELSE /\ timers' = (timers \ {timeoutTimer}) \cup {now + timeoutMs}
           /\ timeoutTimer' = now + timeoutMs

resetTimeout_noClear ==
    IF timeoutMs <= 0
      THEN UNCHANGED <<timers, timeoutTimer>>
      ELSE /\ timers' = timers \cup {now + timeoutMs}
           /\ timeoutTimer' = now + timeoutMs

\* resetTimeout (lines 227-235)
resetTimeout ==
    IF timeoutMs <= 0
      THEN UNCHANGED <<timers, timeoutTimer>>
      ELSE /\ timers' = (timers \ {timeoutTimer}) \cup {now + timeoutMs}
           /\ timeoutTimer' = now + timeoutMs

\* onAbort (line 194): combinedController.abort(), which acts once
onAbort(source) ==
    IF combinedAborted
      THEN UNCHANGED <<combinedAborted, abortDispatches, cause>>
      ELSE /\ combinedAborted' = TRUE
           /\ abortDispatches' = abortDispatches + 1
           /\ cause' = source

RegisteredListeners_callerOnly == {"signal"}

\* the addEventListener calls of lines 237-240
RegisteredListeners == {"signal", "timeout"}

BackgroundDelayTimer_noDelay(p) ==
    IF p # None /\ is_background THEN now ELSE None

\* the background-delay timer of lines 301-312
BackgroundDelayTimer(p) ==
    IF p # None /\ is_background THEN now + BACKGROUND_DELAY_MS ELSE None

Finally_keepsFile ==
    /\ timers' = timers \ {timeoutTimer}
    /\ timeoutTimer' = timeoutTimer
    /\ listeners' = {}
    /\ tempFileExists' = tempFileExists

\* the finally block (lines 460-467)
Finally ==
    /\ timers' = timers \ {timeoutTimer}
    /\ timeoutTimer' = timeoutTimer
    /\ listeners' = {}
    /\ tempFileExists' = FALSE

\* the choice of the message (lines 347-370), by its kind
llmContent(res) ==
    IF res.aborted
      THEN IF timeoutAborted THEN "timeout" ELSE "cancelled"
      ELSE IF is_background \/ res.backgrounded THEN "background" ELSE "completed"

\* (timeoutMs / 60000).toFixed(1) of lines 351-353, as the whole part and the
\* decimal digit: the nearest number of tenths of a minute, the larger one when
\* two are equally near. Exact for every quotient that the floating-point
\* division does not move across such a tie.
toFixed1(ms) ==
    LET tenths == (ms + 3000) \div 6000
    IN <<tenths \div 10, tenths % 10>>

\* the number cited by the message (lines 350-354)
timeoutMinutes(res) ==
    IF res.aborted /\ timeoutAborted THEN toFixed1(timeoutMs) ELSE <<>>

\* what follows the first sentence of an aborted run (lines 359-363)
messageTail(res) ==
    IF ~res.aborted THEN "none"
    ELSE IF trim(res.output) # "" THEN "output" ELSE "noOutput"

\* the error field (lines 431-438)
executionError(res) == IF res.error THEN "SHELL_EXECUTE_ERROR" ELSE "none"

ExitedOk == [code |-> 0, signal |-> "none"]
ExitStatuses == {ExitedOk, [code |-> 1, signal |-> "none"],
                 [code |-> None, signal |-> "SIGTERM"]}

\* contents of the pid-report file after split(EOL).filter(Boolean) (line 328)
PidFiles == {<<>>, <<"1">>, <<"1", "7">>, <<"junk", "1">>, <<"7", "0x10">>}

\* /^\d+$/.test(line) of line 330
IsDecimal(line) == line \in {"1", "7"}

\* Number(line) of line 333; NaN is unequal to every number
NaN == None - 1
Number(line) ==
    CASE line = "1" -> 1
      [] line = "7" -> 7
      [] line = "0x10" -> 16
      [] OTHER -> NaN

\* the loop of lines 329-337 without its logging
RECURSIVE backgroundPIDs(_, _)
backgroundPIDs(lines, primary) ==
    IF lines = <<>> THEN <<>>
    ELSE (IF Number(Head(lines)) # primary THEN <<Number(Head(lines))>> ELSE <<>>)
         \o backgroundPIDs(Tail(lines), primary)

\* the logging of lines 330-332
pgrepLogged(lines) ==
    IF \E i \in 1..Len(lines) : ~IsDecimal(lines[i]) THEN {"pgrep: line"} ELSE {}

\* the logging of lines 338-342
missingLogged(res) ==
    IF ~signalAborted /\ ~res.backgrounded THEN {"missing pgrep output"} ELSE {}

\* an occurrence of commandToExecute (lines 198-205) in an error message
CommandToExecute == "<commandToExecute>"

\* String.prototype.replaceAll with a string replacement (lines 377-380): in
\* the replacement "$$" stands for "$" and "$&" for the matched text
GetSubstitution(matched, replacement) ==
    [i \in 1..Len(replacement) |->
        CASE replacement[i] = "$$" -> "$"
          [] replacement[i] = "$&" -> matched
          [] OTHER -> replacement[i]]

RECURSIVE replaceAll(_, _, _)
replaceAll(message, pattern, replacement) ==
    IF message = <<>> THEN <<>>
    ELSE (IF Head(message) = pattern THEN GetSubstitution(pattern, replacement)
          ELSE <<Head(message)>>)
         \o replaceAll(Tail(message), pattern, replacement)

\* llmContentParts of lines 374-396, by the kind of each line
llmContentParts(res, bgPids) ==
    <<"Output">>
    \o (IF res.error THEN <<"Error">> ELSE <<>>)
    \o (IF res.exitCode # None /\ res.exitCode # 0 THEN <<"Exit Code">> ELSE <<>>)
    \o (IF res.signal # "none" THEN <<"Signal">> ELSE <<>>)
    \o (IF bgPids # <<>> THEN <<"Background PIDs">> ELSE <<>>)
    \o (IF res.pid # None THEN <<"Process Group PGID">> ELSE <<>>)

returnDisplayMessage_codeZeroShown(res) ==
    IF debugMode THEN "llmContent"
    ELSE IF is_background \/ res.backgrounded THEN "background"
    ELSE IF trim(res.output) # "" THEN "output"
    ELSE IF res.aborted THEN (IF timeoutAborted THEN "timeout" ELSE "cancelled")
    ELSE IF res.signal # "none" THEN "signal"
    ELSE IF res.error THEN "failed"
    ELSE IF res.exitCode # None THEN "exitCode"
    ELSE "empty"

\* returnDisplayMessage of lines 401-428, by its kind
returnDisplayMessage(res) ==
    IF debugMode THEN "llmContent"
    ELSE IF is_background \/ res.backgrounded THEN "background"
    ELSE IF trim(res.output) # "" THEN "output"
    ELSE IF res.aborted THEN (IF timeoutAborted THEN "timeout" ELSE "cancelled")
    ELSE IF res.signal # "none" THEN "signal"
    ELSE IF res.error THEN "failed"
    ELSE IF res.exitCode # None /\ res.exitCode # 0 THEN "exitCode"
    ELSE "empty"

\* data of lines 345, 366-370
data(res) ==
    IF ~res.aborted /\ (is_background \/ res.backgrounded)
      THEN [present |-> TRUE, pid |-> res.pid, command |-> command,
            initialOutput |-> res.output]
      ELSE NoData

\* lines 345-438: everything the two return statements use
Assembly(res, bgPids) ==
    LET completed == llmContent(res) = "completed"
    IN [ToolResult(llmContent(res), timeoutMinutes(res), messageTail(res),
                   executionError(res), res.pid)
        EXCEPT !.lines = IF completed THEN llmContentParts(res, bgPids) ELSE <<>>,
               !.outputLine = IF ~completed THEN ""
                              ELSE IF res.output = "" THEN "(empty)" ELSE res.output,
               !.errorLine = IF completed /\ res.error
                               THEN replaceAll(errorMessage, CommandToExecute, command)
                               ELSE <<>>,
               !.bgPids = IF completed THEN bgPids ELSE <<>>,
               !.returnDisplay = returnDisplayMessage(res),
               !.data = data(res)]

\* the return statements of lines 447-451 and 454-459
Returned_displayFromSummary(a, viaSummarizer) ==
    IF viaSummarizer
      THEN [ToolResult("summary", <<>>, "none", a.errorType, None)
            EXCEPT !.returnDisplay = "summary"]
      ELSE a

Returned(a, viaSummarizer) ==
    IF viaSummarizer
      THEN [ToolResult("summary", <<>>, "none", a.errorType, None)
            EXCEPT !.returnDisplay = a.returnDisplay]
      ELSE a

\* lines 345-459: the assembly, then the return through finally or the call
\* of the summarizer
AssembleAndReturn(bgPids) ==
    /\ assembled' = Assembly(result, bgPids)
    /\ IF summarize
         THEN /\ pc' = "awaitSummary"
              /\ UNCHANGED <<ret, timers, timeoutTimer, listeners, tempFileExists>>
         ELSE /\ ret' = Returned(assembled', FALSE)
              /\ pc' = "returned"
              /\ Finally

\* lines 169-246: up to the call of ShellExecutionService.execute
ExecuteEnter ==
    /\ pc = "created"
    /\ IF cancelledOnEntry
         THEN /\ pc' = "returned"
              /\ ret' = [ToolResult("precancelled", <<>>, "none", "none", None)
                            EXCEPT !.returnDisplay = "cancelled"]
              /\ UNCHANGED <<timers, timeoutTimer, listeners, tempFileExists,
                             serviceCalls, streamVars>>
         ELSE IF ~pathOk
           THEN /\ pc' = "returned"
                /\ ret' = [ToolResult("pathError", <<>>, "none",
                                      "PATH_NOT_IN_WORKSPACE", None)
                             EXCEPT !.returnDisplay = "pathError"]
                /\ Finally
                /\ UNCHANGED <<serviceCalls, streamVars>>
           ELSE /\ pc' = "awaitSpawn"
                /\ cumulativeOutput' = "empty"
                /\ lastUpdateTime' = now
                /\ isBinaryStream' = FALSE
                /\ listeners' = RegisteredListeners
                /\ resetTimeout
                /\ serviceCalls' = serviceCalls + 1
                /\ UNCHANGED <<ret, tempFileExists, sinkCount, lastSink, binarySeen,
                               cbTrace>>
    /\ UNCHANGED <<is_background, timeoutMs, collectBackgroundPids, pathOk,
                   has_dir_path, updateOutput, now,
                   signalAborted, timeoutAborted, combinedAborted, abortDispatches,
                   cause, bgTimer, bgRequests, bgRequestedAt, spawnedAt, pid, proc,
                   result, evCount, lastEvent, readCount>>
    /\ UNCHANGED <<runInputs, shellVars, callbackThrows, logged, assembled>>
    /\ UNCHANGED policyVars

\* lines 245-314: the execution service returned its handle
SpawnReturn ==
    /\ pc = "awaitSpawn"
    /\ \E p \in {None, 1} :
          /\ pid' = p
          /\ bgTimer' = BackgroundDelayTimer(p)
          /\ IF p = None
               THEN /\ proc' = "none"
                    /\ result' = ShellExecutionResult(FALSE, FALSE, TRUE, None, "")
                    /\ spawnedAt' = None
               ELSE /\ proc' = "running"
                    /\ result' = result
                    /\ spawnedAt' = now
    /\ pc' = "awaitResult"
    /\ UNCHANGED <<is_background, timeoutMs, collectBackgroundPids, pathOk,
                   has_dir_path, updateOutput, now,
                   signalAborted, timeoutAborted, combinedAborted, abortDispatches,
                   cause, listeners, timers, timeoutTimer, bgRequests,
                   bgRequestedAt, evCount, lastEvent, tempFileExists, readCount, ret>>
    /\ UNCHANGED <<serviceCalls, streamVars>>
    /\ UNCHANGED <<runInputs, shellVars, callbackThrows, logged, assembled>>
    /\ UNCHANGED policyVars

EventTypes == {"data", "binary_detected", "binary_progress"}

BinaryEvents == {"binary_detected", "binary_progress"}

NoSink == [kind |-> "none", at |-> None]

\* cumulativeOutput after the switch of lines 257-283, by its kind
outputAfter(type) ==
    CASE type = "data" -> IF isBinaryStream THEN cumulativeOutput ELSE "chunk"
      [] type = "binary_detected" -> "binaryDetected"
      [] type = "binary_progress" -> "binaryProgress"
      [] OTHER -> cumulativeOutput

throttleElapsed_atInterval == now - lastUpdateTime >= OUTPUT_UPDATE_INTERVAL_MS

\* the test of line 274
throttleElapsed == now - lastUpdateTime > OUTPUT_UPDATE_INTERVAL_MS

shouldUpdate_rawInBinaryMode(type) ==
    CASE type = "data" -> TRUE
      [] type = "binary_detected" -> TRUE
      [] type = "binary_progress" -> throttleElapsed
      [] OTHER -> FALSE

\* shouldUpdate after the switch of lines 257-283
shouldUpdate(type) ==
    CASE type = "data" -> ~isBinaryStream
      [] type = "binary_detected" -> TRUE
      [] type = "binary_progress" -> throttleElapsed
      [] OTHER -> FALSE

forwards_alsoInBackground(type) == shouldUpdate(type)

\* the test of line 285
forwards(type) == shouldUpdate(type) /\ ~is_background

callbackEffects_sinkFirst(forwarded) ==
    (IF forwarded THEN <<"sink">> ELSE <<>>)
        \o (IF timeoutMs > 0 THEN <<"reset">> ELSE <<>>)

\* what one invocation of the callback does, in order: the timer is armed by
\* line 250, the sink is called by line 286
callbackEffects(forwarded) ==
    (IF timeoutMs > 0 THEN <<"reset">> ELSE <<>>)
        \o (IF forwarded THEN <<"sink">> ELSE <<>>)

\* the callback of lines 249-289 on an event of the given type
onOutputEvent(type) ==
    /\ resetTimeout
    /\ binarySeen' = (binarySeen \/ type \in BinaryEvents)
    /\ IF ~updateOutput
         THEN /\ UNCHANGED <<isBinaryStream, cumulativeOutput, lastUpdateTime,
                             sinkCount, lastSink>>
              /\ cbTrace' = callbackEffects(FALSE)
         ELSE /\ isBinaryStream' = (isBinaryStream \/ type \in BinaryEvents)
              /\ cumulativeOutput' = outputAfter(type)
              /\ cbTrace' = callbackEffects(forwards(type))
              /\ IF forwards(type)
                   THEN /\ sinkCount' = sinkCount + 1
                        /\ lastSink' = [kind |-> outputAfter(type), at |-> now]
                        /\ lastUpdateTime' = now
                   ELSE UNCHANGED <<sinkCount, lastSink, lastUpdateTime>>

\* the service delivers a data or binary event to the callback
OutputEvent ==
    /\ pc = "awaitResult"
    /\ proc = "running"
    /\ ~result.resolved
    /\ evCount < MaxEvents
    /\ evCount' = evCount + 1
    /\ \E type \in EventTypes :
          /\ lastEvent' = type
          /\ onOutputEvent(type)
    /\ UNCHANGED <<is_background, timeoutMs, collectBackgroundPids, pathOk,
                   has_dir_path, updateOutput, pc, now,
                   signalAborted, timeoutAborted, combinedAborted, abortDispatches,
                   cause, listeners, bgTimer, bgRequests, bgRequestedAt, spawnedAt,
                   pid, proc, result, tempFileExists, readCount, ret>>
    /\ UNCHANGED serviceCalls
    /\ UNCHANGED <<runInputs, shellVars, callbackThrows, logged, assembled>>
    /\ UNCHANGED policyVars

\* the process ends: the wrapper of line 204 may have written the pid-report
\* file; the exit event reaches the callback and the result resolves
ProcExit ==
    /\ proc = "running"
    /\ ~result.resolved
    /\ \E wrote \in (IF collectBackgroundPids THEN BOOLEAN ELSE {FALSE}) :
          tempFileExists' = (tempFileExists \/ wrote)
    /\ proc' = "exited"
    /\ \E out \in Outputs :
          result' = ShellExecutionResult(combinedAborted, FALSE, FALSE, pid, out)
    /\ lastEvent' = "exit"
    /\ onOutputEvent("exit")
    /\ UNCHANGED <<is_background, timeoutMs, collectBackgroundPids, pathOk,
                   has_dir_path, updateOutput, pc, now,
                   signalAborted, timeoutAborted, combinedAborted, abortDispatches,
                   cause, listeners, bgTimer, bgRequests, bgRequestedAt, spawnedAt,
                   pid, evCount, readCount, ret>>
    /\ UNCHANGED serviceCalls
    /\ UNCHANGED <<runInputs, shellVars, callbackThrows, logged, assembled>>
    /\ UNCHANGED policyVars

\* a process moved to the background ends later, on its own
DetachedExit ==
    /\ proc = "detached"
    /\ ~MicrotaskPending
    /\ \E wrote \in (IF collectBackgroundPids THEN BOOLEAN ELSE {FALSE}) :
          tempFileExists' = (tempFileExists \/ wrote)
    /\ proc' = "exited"
    /\ UNCHANGED <<is_background, timeoutMs, collectBackgroundPids, pathOk,
                   has_dir_path, updateOutput, pc, now,
                   signalAborted, timeoutAborted, combinedAborted, abortDispatches,
                   cause, listeners, timers, timeoutTimer, bgTimer, bgRequests,
                   bgRequestedAt, spawnedAt, pid, result, evCount, lastEvent, readCount, ret>>
    /\ UNCHANGED <<serviceCalls, streamVars>>
    /\ UNCHANGED <<runInputs, shellVars, callbackThrows, logged, assembled>>
    /\ UNCHANGED policyVars

\* the callback of the background-delay timer (lines 308-310)
BgTimerFire ==
    /\ bgTimer # None
    /\ now >= bgTimer
    /\ ~MicrotaskPending
    /\ bgTimer' = None
    /\ bgRequests' = bgRequests + 1
    /\ bgRequestedAt' = IF bgRequestedAt = None THEN now ELSE bgRequestedAt
    /\ IF proc = "running" /\ ~result.resolved
         THEN /\ proc' = "detached"
              /\ \E out \in Outputs :
                    result' = ShellExecutionResult(FALSE, TRUE, FALSE, pid, out)
         ELSE UNCHANGED <<proc, result>>
    /\ UNCHANGED <<is_background, timeoutMs, collectBackgroundPids, pathOk,
                   has_dir_path, updateOutput, pc, now,
                   signalAborted, timeoutAborted, combinedAborted, abortDispatches,
                   cause, listeners, timers, timeoutTimer, spawnedAt, pid, evCount, lastEvent,
                   tempFileExists, readCount, ret>>
    /\ UNCHANGED <<serviceCalls, streamVars>>
    /\ UNCHANGED <<runInputs, shellVars, callbackThrows, logged, assembled>>
    /\ UNCHANGED policyVars

\* the callback of an inactivity timer (lines 232-234)
TimerFire ==
    /\ ~MicrotaskPending
    /\ \E d \in timers :
          /\ now >= d
          /\ timers' = timers \ {d}
    /\ timeoutAborted' = TRUE
    /\ IF ~timeoutAborted /\ "timeout" \in listeners
         THEN onAbort("timeout")
         ELSE UNCHANGED <<combinedAborted, abortDispatches, cause>>
    /\ listeners' = IF ~timeoutAborted THEN listeners \ {"timeout"} ELSE listeners
    /\ UNCHANGED <<is_background, timeoutMs, collectBackgroundPids, pathOk,
                   has_dir_path, updateOutput, pc, now,
                   signalAborted, timeoutTimer, bgTimer, bgRequests, bgRequestedAt,
                   spawnedAt, pid, proc, result, evCount, lastEvent, tempFileExists, readCount,
                   ret>>
    /\ UNCHANGED <<serviceCalls, streamVars>>
    /\ UNCHANGED <<runInputs, shellVars, callbackThrows, logged, assembled>>
    /\ UNCHANGED policyVars

\* the caller aborts its signal
CallerAbort ==
    /\ ~signalAborted
    /\ ~MicrotaskPending
    /\ signalAborted' = TRUE
    /\ IF "signal" \in listeners
         THEN onAbort("caller")
         ELSE UNCHANGED <<combinedAborted, abortDispatches, cause>>
    /\ listeners' = listeners \ {"signal"}
    /\ UNCHANGED <<is_background, timeoutMs, collectBackgroundPids, pathOk,
                   has_dir_path, updateOutput, pc, now,
                   timeoutAborted, timers, timeoutTimer, bgTimer, bgRequests,
                   bgRequestedAt, spawnedAt, pid, proc, result, evCount, lastEvent,
                   tempFileExists, readCount, ret>>
    /\ UNCHANGED <<serviceCalls, streamVars>>
    /\ UNCHANGED <<runInputs, shellVars, callbackThrows, logged, assembled>>
    /\ UNCHANGED policyVars

\* time passes
Tick ==
    /\ now < MaxTicks * TickMs
    /\ ~MicrotaskPending
    /\ ~Terminal \/ timers # {} \/ bgTimer # None
    /\ now' = now + TickMs
    /\ UNCHANGED <<is_background, timeoutMs, collectBackgroundPids, pathOk,
                   has_dir_path, updateOutput, pc,
                   signalAborted, timeoutAborted, combinedAborted, abortDispatches,
                   cause, listeners, timers, timeoutTimer, bgTimer, bgRequests,
                   bgRequestedAt, spawnedAt, pid, proc, result, evCount, lastEvent,
                   tempFileExists, readCount, ret>>
    /\ UNCHANGED <<serviceCalls, streamVars>>
    /\ UNCHANGED <<runInputs, shellVars, callbackThrows, logged, assembled>>
    /\ UNCHANGED policyVars

\* line 314 resumes with the result; lines 316-320
ResumeAfterResult ==
    /\ MicrotaskPending
    /\ IF collectBackgroundPids
         THEN /\ pc' = "awaitAccess"
              /\ UNCHANGED <<ret, timers, timeoutTimer, listeners, tempFileExists,
                             assembled>>
         ELSE AssembleAndReturn(<<>>)
    /\ UNCHANGED <<is_background, timeoutMs, collectBackgroundPids, pathOk,
                   has_dir_path, updateOutput, now,
                   signalAborted, timeoutAborted, combinedAborted, abortDispatches,
                   cause, bgTimer, bgRequests, bgRequestedAt, spawnedAt, pid, proc,
                   result, evCount, lastEvent, readCount>>
    /\ UNCHANGED <<serviceCalls, streamVars>>
    /\ UNCHANGED <<runInputs, shellVars, callbackThrows, logged>>
    /\ UNCHANGED policyVars

\* fsPromises.access settled (lines 319-327, 338-342)
AccessDone ==
    /\ pc = "awaitAccess"
    /\ IF tempFileExists
         THEN /\ pc' = "awaitRead"
              /\ UNCHANGED <<ret, timers, timeoutTimer, listeners, tempFileExists,
                             logged, assembled>>
         ELSE /\ logged' = logged \cup missingLogged(result)
              /\ AssembleAndReturn(<<>>)
    /\ UNCHANGED <<is_background, timeoutMs, collectBackgroundPids, pathOk,
                   has_dir_path, updateOutput, now,
                   signalAborted, timeoutAborted, combinedAborted, abortDispatches,
                   cause, bgTimer, bgRequests, bgRequestedAt, spawnedAt, pid, proc,
                   result, evCount, lastEvent, readCount>>
    /\ UNCHANGED <<serviceCalls, streamVars>>
    /\ UNCHANGED <<runInputs, shellVars, callbackThrows>>
    /\ UNCHANGED policyVars

\* fsPromises.readFile settled (lines 327-337), with the file's content or an error
ReadDone ==
    /\ pc = "awaitRead"
    /\ readCount' = readCount + 1
    /\ \E ok \in BOOLEAN :
          IF ok THEN /\ logged' = logged \cup pgrepLogged(pgrepLines)
                     /\ AssembleAndReturn(backgroundPIDs(pgrepLines, result.pid))
          ELSE /\ pc' = "threw"
               /\ ret' = ret
               /\ Finally
               /\ UNCHANGED <<logged, assembled>>
    /\ UNCHANGED <<is_background, timeoutMs, collectBackgroundPids, pathOk,
                   has_dir_path, updateOutput, now,
                   signalAborted, timeoutAborted, combinedAborted, abortDispatches,
                   cause, bgTimer, bgRequests, bgRequestedAt, spawnedAt, pid, proc,
                   result, evCount, lastEvent>>
    /\ UNCHANGED <<serviceCalls, streamVars>>
    /\ UNCHANGED <<runInputs, shellVars, callbackThrows>>
    /\ UNCHANGED policyVars

(***************************************************************************)
(* Specifications                                                          *)
(***************************************************************************)
ExecFresh ==
    /\ pc = "created"
    /\ now = 0
    /\ signalAborted = FALSE
    /\ timeoutAborted = FALSE
    /\ combinedAborted = FALSE
    /\ abortDispatches = 0
    /\ cause = "none"
    /\ listeners = {}
    /\ timers = {}
    /\ timeoutTimer = None
    /\ bgTimer = None
    /\ bgRequests = 0
    /\ bgRequestedAt = None
    /\ spawnedAt = None
    /\ pid = None
    /\ proc = "none"
    /\ result = NoResult
    /\ evCount = 0
    /\ lastEvent = "none"
    /\ tempFileExists = FALSE
    /\ readCount = 0
    /\ ret = NoRet
    /\ serviceCalls = 0
    /\ isBinaryStream = FALSE
    /\ cumulativeOutput = "empty"
    /\ lastUpdateTime = 0
    /\ sinkCount = 0
    /\ lastSink = NoSink
    /\ binarySeen = FALSE
    /\ cbTrace = <<>>
    /\ callbackThrows = 0
    /\ logged = {}
    /\ assembled = NoRet

\* a run outside debug mode, without summarization, whose process exits with
\* code 0 and whose pid-report file names no process
PlainRun ==
    /\ debugMode = FALSE
    /\ summarize = FALSE
    /\ exitStatus = ExitedOk
    /\ pgrepLines = <<>>
    /\ errorMessage = <<"spawn", "ENOENT">>

\* process.env.SHELL: unset, or a string cut at its slashes ("" between two
\* slashes and after a trailing one)
UnsetEnv == [set |-> FALSE, segments |-> <<>>]

\* a value of a setting, by its JavaScript type; text is "" for what is not
\* a string
Undefined == [type |-> "undefined", text |-> ""]
Str(text) == [type |-> "string", text |-> text]
NotAString == [type |-> "number", text |-> ""]

\* settings.tools.shell with nothing set
NoSettings ==
    [profile |-> "undefined", executable |-> Undefined,
     argsPrefix |-> [type |-> "undefined", items |-> <<>>],
     shellType |-> "undefined", guidance |-> Undefined, searchCommand |-> Undefined]

\* a Partial<ShellConfiguration> or undefined; a field that is undefined is
\* "undefined", and <<>> for argsPrefix
ShellConfiguration(defined, executable, argsPrefix, shell) ==
    [defined |-> defined, executable |-> executable, argsPrefix |-> argsPrefix,
     shell |-> shell]

NotResolved ==
    [called |-> FALSE,
     override |-> ShellConfiguration(FALSE, "undefined", <<>>, "undefined"),
     guidance |-> <<>>, searchCommand |-> "undefined"]

\* SHELL unset, nothing set in the settings, and neither detection nor the
\* resolver called
ShellFresh ==
    /\ shellEnv = UnsetEnv
    /\ detected = "none"
    /\ settings = NoSettings
    /\ resolver = "part_000"
    /\ resolved = NotResolved

PolicyFresh ==
    /\ ppc = "created"
    /\ confirmation = NoConfirmation
    /\ policyUpdate = NoUpdate
    /\ rules = {}

InitPolicy ==
    /\ command \in Commands
    /\ commandAllowed \in BOOLEAN
    /\ is_interactive \in BOOLEAN
    /\ approvalMode \in {"default", "yolo"}
    /\ allowedTools \in {{}, {"ls"}, {"ls", "rm"}}
    /\ shellType \in {"bash", "other"}
    /\ parserReady \in BOOLEAN
    /\ PolicyFresh
    /\ is_background = FALSE
    /\ timeoutMs = 0
    /\ collectBackgroundPids = FALSE
    /\ pathOk = TRUE
    /\ has_dir_path = FALSE
    /\ updateOutput = FALSE
    /\ ExecFresh
    /\ PlainRun
    /\ ShellFresh

NextPolicy == Build \/ ShouldConfirm \/ OnConfirm

SpecPolicy == InitPolicy /\ [][NextPolicy]_vars

Init ==
    /\ command = <<"ls">>
    /\ commandAllowed = TRUE
    /\ is_interactive = TRUE
    /\ approvalMode = "default"
    /\ allowedTools = {}
    /\ shellType = "bash"
    /\ parserReady = TRUE
    /\ PolicyFresh
    /\ is_background \in BOOLEAN
    /\ timeoutMs \in TimeoutChoices
    /\ collectBackgroundPids \in BOOLEAN
    /\ pathOk \in BOOLEAN
    /\ has_dir_path = FALSE
    /\ updateOutput \in BOOLEAN
    /\ ExecFresh
    /\ PlainRun
    /\ ShellFresh

Next ==
    \/ ExecuteEnter
    \/ SpawnReturn
    \/ OutputEvent
    \/ ProcExit
    \/ DetachedExit
    \/ BgTimerFire
    \/ TimerFire
    \/ CallerAbort
    \/ Tick
    \/ ResumeAfterResult
    \/ AccessDone
    \/ ReadDone

Spec == Init /\ [][Next]_vars

(***************************************************************************)
(* The output callback over several update intervals: the same execute,    *)
(* with no inactivity timeout and a clock that advances by half of         *)
(* OUTPUT_UPDATE_INTERVAL_MS                                               *)
(***************************************************************************)
StreamTickMs == OUTPUT_UPDATE_INTERVAL_MS \div 2

StreamTick ==
    /\ now < MaxStreamTicks * StreamTickMs
    /\ ~MicrotaskPending
    /\ ~Terminal
    /\ now' = now + StreamTickMs
    /\ UNCHANGED <<is_background, timeoutMs, collectBackgroundPids, pathOk,
                   has_dir_path, updateOutput, pc,
                   signalAborted, timeoutAborted, combinedAborted, abortDispatches,
                   cause, listeners, timers, timeoutTimer, bgTimer, bgRequests,
                   bgRequestedAt, spawnedAt, pid, proc, result, evCount, lastEvent,
                   tempFileExists, readCount, ret>>
    /\ UNCHANGED <<serviceCalls, streamVars>>
    /\ UNCHANGED <<runInputs, shellVars, callbackThrows, logged, assembled>>
    /\ UNCHANGED policyVars

\* the default branch of lines 280-282 is reached only past the return of
\* lines 251-253
throwsUnhandled == updateOutput

\* the service delivers an event whose type is none of data, binary_detected,
\* binary_progress and exit; an error the callback throws goes to the service
UnknownEvent ==
    /\ pc = "awaitResult"
    /\ proc = "running"
    /\ ~result.resolved
    /\ evCount < MaxEvents
    /\ evCount' = evCount + 1
    /\ lastEvent' = "unknown"
    /\ resetTimeout
    /\ cbTrace' = callbackEffects(FALSE)
                     \o (IF throwsUnhandled THEN <<"throw">> ELSE <<>>)
    /\ callbackThrows' = callbackThrows + (IF throwsUnhandled THEN 1 ELSE 0)
    /\ UNCHANGED <<isBinaryStream, cumulativeOutput, lastUpdateTime, sinkCount,
                   lastSink, binarySeen>>
    /\ UNCHANGED <<is_background, timeoutMs, collectBackgroundPids, pathOk,
                   has_dir_path, updateOutput, pc, now,
                   signalAborted, timeoutAborted, combinedAborted, abortDispatches,
                   cause, listeners, bgTimer, bgRequests, bgRequestedAt, spawnedAt,
                   pid, proc, result, tempFileExists, readCount, ret>>
    /\ UNCHANGED serviceCalls
    /\ UNCHANGED <<runInputs, shellVars, logged, assembled>>
    /\ UNCHANGED policyVars

InitStream ==
    /\ command = <<"ls">>
    /\ commandAllowed = TRUE
    /\ is_interactive = TRUE
    /\ approvalMode = "default"
    /\ allowedTools = {}
    /\ shellType = "bash"
    /\ parserReady = TRUE
    /\ PolicyFresh
    /\ is_background = FALSE
    /\ timeoutMs = 0
    /\ collectBackgroundPids = FALSE
    /\ pathOk = TRUE
    /\ has_dir_path = FALSE
    /\ updateOutput \in BOOLEAN
    /\ ExecFresh
    /\ PlainRun
    /\ ShellFresh

NextStream ==
    \/ ExecuteEnter
    \/ SpawnReturn
    \/ OutputEvent
    \/ UnknownEvent
    \/ ProcExit
    \/ CallerAbort
    \/ StreamTick
    \/ ResumeAfterResult

SpecStream == InitStream /\ [][NextStream]_vars

(***************************************************************************)
(* The assembly of the result: the same execute with no inactivity         *)
(* timeout, over exit statuses, pid-report files, error messages, debug    *)
(* mode and summarization                                                  *)
(***************************************************************************)
\* literal commands, each with a message the service's error may carry
FailingRuns == {
    [command |-> <<"ls">>, message |-> <<"spawn", "ENOENT">>],
    [command |-> <<"ls">>, message |-> <<"failed:", CommandToExecute>>],
    [command |-> <<"echo", "$$">>,
     message |-> <<CommandToExecute, "then", CommandToExecute>>],
    [command |-> <<"echo", "$&">>, message |-> <<"failed:", CommandToExecute>>]}

\* the grace period of a background-intended run elapses (lines 306-311)
DelayElapses ==
    /\ bgTimer # None
    /\ now < bgTimer
    /\ ~MicrotaskPending
    /\ now' = bgTimer
    /\ UNCHANGED <<is_background, timeoutMs, collectBackgroundPids, pathOk,
                   has_dir_path, updateOutput, pc,
                   signalAborted, timeoutAborted, combinedAborted, abortDispatches,
                   cause, listeners, timers, timeoutTimer, bgTimer, bgRequests,
                   bgRequestedAt, spawnedAt, pid, proc, result, evCount, lastEvent,
                   tempFileExists, readCount, ret>>
    /\ UNCHANGED <<serviceCalls, streamVars>>
    /\ UNCHANGED <<runInputs, shellVars, callbackThrows, logged, assembled>>
    /\ UNCHANGED policyVars

\* the service reports a process that detached itself as backgrounded,
\* without a request of the tool
SelfDetach ==
    /\ proc = "running"
    /\ ~result.resolved
    /\ ~is_background
    /\ proc' = "detached"
    /\ \E out \in Outputs :
          result' = ShellExecutionResult(FALSE, TRUE, FALSE, pid, out)
    /\ UNCHANGED <<is_background, timeoutMs, collectBackgroundPids, pathOk,
                   has_dir_path, updateOutput, pc, now,
                   signalAborted, timeoutAborted, combinedAborted, abortDispatches,
                   cause, listeners, timers, timeoutTimer, bgTimer, bgRequests,
                   bgRequestedAt, spawnedAt, pid, evCount, lastEvent,
                   tempFileExists, readCount, ret>>
    /\ UNCHANGED <<serviceCalls, streamVars>>
    /\ UNCHANGED <<runInputs, shellVars, callbackThrows, logged, assembled>>
    /\ UNCHANGED policyVars

\* summarizeToolOutput settled (lines 439-451), with the summary or an error
SummaryDone ==
    /\ pc = "awaitSummary"
    /\ \E ok \in BOOLEAN :
          IF ok THEN /\ ret' = Returned(assembled, TRUE)
                     /\ pc' = "returned"
                     /\ Finally
          ELSE /\ pc' = "threw"
               /\ ret' = ret
               /\ Finally
    /\ UNCHANGED <<is_background, timeoutMs, collectBackgroundPids, pathOk,
                   has_dir_path, updateOutput, now,
                   signalAborted, timeoutAborted, combinedAborted, abortDispatches,
                   cause, bgTimer, bgRequests, bgRequestedAt, spawnedAt, pid, proc,
                   result, evCount, lastEvent, readCount>>
    /\ UNCHANGED <<serviceCalls, streamVars>>
    /\ UNCHANGED <<runInputs, shellVars, callbackThrows, logged, assembled>>
    /\ UNCHANGED policyVars

InitAssemble ==
    /\ \E run \in FailingRuns :
          /\ command = run.command
          /\ errorMessage = run.message
    /\ commandAllowed = TRUE
    /\ is_interactive = TRUE
    /\ approvalMode = "default"
    /\ allowedTools = {}
    /\ shellType = "bash"
    /\ parserReady = TRUE
    /\ PolicyFresh
    /\ is_background \in BOOLEAN
    /\ timeoutMs \in {0, 0 - TickMs}
    /\ collectBackgroundPids \in BOOLEAN
    /\ pathOk = TRUE
    /\ has_dir_path = FALSE
    /\ updateOutput = FALSE
    /\ ExecFresh
    /\ debugMode \in BOOLEAN
    /\ summarize \in BOOLEAN
    /\ exitStatus \in ExitStatuses
    /\ pgrepLines \in (IF collectBackgroundPids THEN PidFiles ELSE {<<>>})
    /\ ShellFresh

NextAssemble ==
    \/ ExecuteEnter
    \/ SpawnReturn
    \/ ProcExit
    \/ DetachedExit
    \/ BgTimerFire
    \/ SelfDetach
    \/ CallerAbort
    \/ DelayElapses
    \/ ResumeAfterResult
    \/ AccessDone
    \/ ReadDone
    \/ SummaryDone

SpecAssemble == InitAssemble /\ [][NextAssemble]_vars

(***************************************************************************)
(* One request from validation to its result: the confirmation path, then  *)
(* execute. The caller of both is the tool scheduler, which builds the     *)
(* invocation, asks shouldConfirmExecute and calls execute once the        *)
(* request is allowed or the user proceeded.                               *)
(***************************************************************************)
RequestCommands == {<<>>, <<"|">>, <<"ls">>}

Approved == {"allowed", "ProceedOnce", "ProceedAlways", "ProceedAlwaysAndSave"}

ScheduledExecute ==
    /\ ppc \in Approved
    /\ ExecuteEnter

InitRequest ==
    /\ command \in RequestCommands
    /\ commandAllowed \in BOOLEAN
    /\ is_interactive \in BOOLEAN
    /\ approvalMode = "default"
    /\ allowedTools \in {{}, {"ls"}}
    /\ shellType = "bash"
    /\ parserReady = TRUE
    /\ PolicyFresh
    /\ is_background = FALSE
    /\ timeoutMs = 0
    /\ collectBackgroundPids = FALSE
    /\ pathOk \in BOOLEAN
    /\ has_dir_path \in BOOLEAN
    /\ updateOutput = TRUE
    /\ ExecFresh
    /\ PlainRun
    /\ ShellFresh

NextRequest ==
    \/ Build
    \/ ShouldConfirm
    \/ OnConfirm
    \/ ScheduledExecute
    \/ SpawnReturn
    \/ OutputEvent
    \/ ProcExit
    \/ CallerAbort
    \/ ResumeAfterResult

SpecRequest == InitRequest /\ [][NextRequest]_vars

(***************************************************************************)
(* Shell profile detection (shell-profiles.ts): a pure function of the     *)
(* environment, applied once to every value of SHELL up to MaxPathLen      *)
(* segments                                                                *)
(***************************************************************************)
MaxPathLen == 2

SegmentChoices == {"", "bin", "sh", "cmd", "bash", "zsh", "fish", "nu", "nushell",
                   "elvish", "pwsh", "powershell", "BASH", "Zsh", "constructor",
                   "__proto__"}

ShellEnvs ==
    {UnsetEnv} \cup {[set |-> TRUE, segments |-> p] :
                       p \in UNION {[1..n -> SegmentChoices] : n \in 0..MaxPathLen}}

ShellProfileId == {"bash", "zsh", "fish", "nushell", "elvish", "powershell", "cmd"}

\* SHELL_PROFILE_REGISTRY: of each profile its shellType, executable,
\* argsPrefix and searchCommand
SHELL_PROFILE_REGISTRY ==
    [id \in ShellProfileId |->
        [shellType |-> CASE id \in {"nushell", "elvish"} -> "other"
                         [] OTHER -> id,
         executable |-> CASE id = "nushell" -> "nu"
                          [] id = "powershell" -> "pwsh"
                          [] id = "cmd" -> "cmd.exe"
                          [] OTHER -> id,
         argsPrefix |-> CASE id = "powershell" -> <<"-NoProfile", "-Command">>
                          [] id = "cmd" -> <<"/c">>
                          [] OTHER -> <<"-c">>,
         searchCommand |-> CASE id = "powershell" -> "Select-String"
                             [] id = "cmd" -> "findstr"
                             [] OTHER -> "rg"]]

\* path.basename: the last segment that is not empty, "" when there is none
RECURSIVE basename(_)
basename(segments) ==
    IF segments = <<>> THEN ""
    ELSE IF segments[Len(segments)] # "" THEN segments[Len(segments)]
    ELSE basename(SubSeq(segments, 1, Len(segments) - 1))

toLowerCase(name) ==
    CASE name = "BASH" -> "bash"
      [] name = "Zsh" -> "zsh"
      [] OTHER -> name

\* executableToProfile[basename]: the table of lines 439-448 is an object
\* literal, so a name it does not define is looked up in Object.prototype
executableToProfile(name) ==
    CASE name \in {"bash", "zsh", "fish", "elvish"} -> name
      [] name \in {"nu", "nushell"} -> "nushell"
      [] name \in {"pwsh", "powershell"} -> "powershell"
      [] name = "constructor" -> "Object"
      [] name = "__proto__" -> "Object.prototype"
      [] OTHER -> "undefined"

detectShellProfileFromEnv(env) ==
    IF ~env.set \/ env.segments = <<>> THEN "undefined"
    ELSE executableToProfile(toLowerCase(basename(env.segments)))

Detect ==
    /\ detected = "none"
    /\ detected' = detectShellProfileFromEnv(shellEnv)
    /\ UNCHANGED <<is_background, timeoutMs, collectBackgroundPids, pathOk,
                   has_dir_path, updateOutput, pc, now,
                   signalAborted, timeoutAborted, combinedAborted, abortDispatches,
                   cause, listeners, timers, timeoutTimer, bgTimer, bgRequests,
                   bgRequestedAt, spawnedAt, pid, proc, result, evCount, lastEvent,
                   tempFileExists, readCount, ret>>
    /\ UNCHANGED <<serviceCalls, streamVars>>
    /\ UNCHANGED <<runInputs, shellEnv, settings, resolver, resolved,
                   callbackThrows, logged, assembled>>
    /\ UNCHANGED policyVars

InitShell ==
    /\ command = <<"ls">>
    /\ commandAllowed = TRUE
    /\ is_interactive = TRUE
    /\ approvalMode = "default"
    /\ allowedTools = {}
    /\ shellType = "bash"
    /\ parserReady = TRUE
    /\ PolicyFresh
    /\ is_background = FALSE
    /\ timeoutMs = 0
    /\ collectBackgroundPids = FALSE
    /\ pathOk = TRUE
    /\ has_dir_path = FALSE
    /\ updateOutput = FALSE
    /\ ExecFresh
    /\ PlainRun
    /\ shellEnv \in ShellEnvs
    /\ detected = "none"
    /\ settings = NoSettings
    /\ resolver = "part_000"
    /\ resolved = NotResolved

NextShell == Detect

SpecShell == InitShell /\ [][NextShell]_vars

(***************************************************************************)
(* The CLI settings resolver, in its two versions: shellConfig.ts with its *)
(* own tables of profile defaults, and part_000, which reads the core      *)
(* registry. Pure functions of the settings, applied once to each          *)
(***************************************************************************)
getShellConfigurationFromProfile(id) ==
    ShellConfiguration(TRUE, SHELL_PROFILE_REGISTRY[id].executable,
                       SHELL_PROFILE_REGISTRY[id].argsPrefix,
                       SHELL_PROFILE_REGISTRY[id].shellType)

PROFILE_DEFAULTS ==
    [id \in ShellProfileId |->
        ShellConfiguration(TRUE,
            CASE id = "nushell" -> "nu"
              [] id = "powershell" -> "powershell.exe"
              [] id = "cmd" -> "cmd.exe"
              [] OTHER -> id,
            CASE id = "powershell" -> <<"-NoProfile", "-Command">>
              [] id = "cmd" -> <<"/c">>
              [] OTHER -> <<"-c">>,
            CASE id \in {"fish", "nushell", "elvish"} -> "other"
              [] OTHER -> id)]

PROFILE_SEARCH_COMMAND ==
    [id \in ShellProfileId |->
        CASE id = "powershell" -> "Get-ChildItem"
          [] id = "cmd" -> "findstr"
          [] OTHER -> "rg"]

\* the guidance text of a profile, by the table it comes from
PROFILE_GUIDANCE(id) == <<"PROFILE_GUIDANCE", id>>
registryGuidance(id) == <<"SHELL_PROFILE_REGISTRY guidance", id>>

normalizeExecutable(executable) ==
    IF executable.type # "string" THEN "undefined"
    ELSE IF trim(executable.text) # "" THEN trim(executable.text) ELSE "undefined"

\* <<>> stands for undefined: the function never returns an empty list
normalizeArgsPrefix(argsPrefix) ==
    IF argsPrefix.type # "array" THEN <<>>
    ELSE LET kept == SelectSeq(argsPrefix.items,
                               LAMBDA arg : arg.type = "string" /\ arg.text # "")
         IN [i \in 1..Len(kept) |-> kept[i].text]

\* profileDefaults of shellConfig.ts 81 and profileConfig of part_000 45-47
profileConfig(s) ==
    IF s.profile = "undefined" THEN ShellConfiguration(FALSE, "undefined", <<>>, "undefined")
    ELSE IF resolver = "shellConfig.ts" THEN PROFILE_DEFAULTS[s.profile]
    ELSE getShellConfigurationFromProfile(s.profile)

resolveShellConfigurationOverrideFromSettings(s) ==
    LET explicitExecutable == normalizeExecutable(s.executable)
        explicitArgs == normalizeArgsPrefix(s.argsPrefix)
        executable == IF explicitExecutable # "undefined" THEN explicitExecutable
                      ELSE profileConfig(s).executable
        argsPrefix == IF explicitArgs # <<>> THEN explicitArgs
                      ELSE profileConfig(s).argsPrefix
        shell == IF s.shellType # "undefined" THEN s.shellType
                 ELSE profileConfig(s).shell
    IN IF executable \in {"undefined", ""} /\ argsPrefix = <<>>
          /\ shell \in {"undefined", ""}
         THEN ShellConfiguration(FALSE, "undefined", <<>>, "undefined")
         ELSE ShellConfiguration(TRUE, executable, argsPrefix, shell)

profileGuidance(s) ==
    IF s.profile = "undefined" THEN <<>>
    ELSE IF resolver = "shellConfig.ts" THEN PROFILE_GUIDANCE(s.profile)
    ELSE registryGuidance(s.profile)

resolveShellGuidanceFromSettings(s) ==
    IF s.guidance.type # "string" \/ s.guidance.text = "" THEN profileGuidance(s)
    ELSE IF trim(s.guidance.text) # "" THEN <<trim(s.guidance.text)>>
    ELSE profileGuidance(s)

profileSearchCommand(s) ==
    IF s.profile = "undefined" THEN "undefined"
    ELSE IF resolver = "shellConfig.ts" THEN PROFILE_SEARCH_COMMAND[s.profile]
    ELSE SHELL_PROFILE_REGISTRY[s.profile].searchCommand

resolveShellSearchCommandFromSettings(s) ==
    IF s.searchCommand.type # "string" \/ s.searchCommand.text = ""
      THEN profileSearchCommand(s)
    ELSE IF trim(s.searchCommand.text) # "" THEN trim(s.searchCommand.text)
    ELSE profileSearchCommand(s)

ExecutableSettings == {Undefined, NotAString, Str(""), Str("  "), Str(" zsh "), Str("zsh")}

ArgsPrefixSettings ==
    {[type |-> "undefined", items |-> <<>>], [type |-> "string", items |-> <<>>]}
    \cup {[type |-> "array", items |-> items] :
             items \in {<<>>, <<Str("")>>, <<Str("-lc")>>, <<Str(""), Str("-lc")>>,
                        <<NotAString, Str("-l"), Str("-c")>>}}

ShellTypeSettings == {"undefined", "", "bash", "other"}

TextSettings == {Undefined, NotAString, Str(""), Str("  "), Str(" ag ")}

SettingsChoices ==
    [profile : ShellProfileId \cup {"undefined"},
     executable : ExecutableSettings,
     argsPrefix : ArgsPrefixSettings,
     shellType : ShellTypeSettings,
     guidance : TextSettings,
     searchCommand : TextSettings]

Resolve ==
    /\ ~resolved.called
    /\ resolved' = [called |-> TRUE,
                    override |-> resolveShellConfigurationOverrideFromSettings(settings),
                    guidance |-> resolveShellGuidanceFromSettings(settings),
                    searchCommand |-> resolveShellSearchCommandFromSettings(settings)]
    /\ UNCHANGED <<is_background, timeoutMs, collectBackgroundPids, pathOk,
                   has_dir_path, updateOutput, pc, now,
                   signalAborted, timeoutAborted, combinedAborted, abortDispatches,
                   cause, listeners, timers, timeoutTimer, bgTimer, bgRequests,
                   bgRequestedAt, spawnedAt, pid, proc, result, evCount, lastEvent,
                   tempFileExists, readCount, ret>>
    /\ UNCHANGED <<serviceCalls, streamVars>>
    /\ UNCHANGED <<runInputs, shellEnv, detected, settings, resolver,
                   callbackThrows, logged, assembled>>
    /\ UNCHANGED policyVars

InitSettings ==
    /\ command = <<"ls">>
    /\ commandAllowed = TRUE
    /\ is_interactive = TRUE
    /\ approvalMode = "default"
    /\ allowedTools = {}
    /\ shellType = "bash"
    /\ parserReady = TRUE
    /\ PolicyFresh
    /\ is_background = FALSE
    /\ timeoutMs = 0
    /\ collectBackgroundPids = FALSE
    /\ pathOk = TRUE
    /\ has_dir_path = FALSE
    /\ updateOutput = FALSE
    /\ ExecFresh
    /\ PlainRun
    /\ shellEnv = UnsetEnv
    /\ detected = "none"
    /\ settings \in SettingsChoices
    /\ resolver \in {"shellConfig.ts", "part_000"}
    /\ resolved = NotResolved

NextSettings == Resolve

SpecSettings == InitSettings /\ [][NextSettings]_vars

(***************************************************************************)
(* Properties of the confirmation path (checked under SpecPolicy)          *)
(***************************************************************************)
Consulted == ppc \notin {"created", "rejected", "built"}

StrippedRoots == getCommandRoots(stripShellWrapper(command), shellType)

AllRootsAllowlisted ==
    /\ StrippedRoots # <<>>
    /\ \A i \in 1..Len(StrippedRoots) : StrippedRoots[i] \in allowedTools

NoDuplicates(s) == \A i, j \in 1..Len(s) : s[i] = s[j] => i = j

Elements(s) == {s[i] : i \in 1..Len(s)}

\* C1: in non-interactive mode with an approval mode other than YOLO, a command
\* whose root commands are not all on the allow-list never gets a confirmation
\* descriptor from getConfirmationDetails (it is denied instead).
C1_NonInteractiveNeverAsks ==
    (Consulted /\ ~is_interactive /\ approvalMode # "yolo" /\ ~AllRootsAllowlisted)
        => confirmation.kind # "details"

\* C2, as claimed: when every extracted root command is on the allow-list,
\* getConfirmationDetails returns false, in interactive mode as well as in
\* non-interactive mode.
C2_AllowlistedAlwaysFalse ==
    (Consulted /\ AllRootsAllowlisted) => confirmation.kind = "false"

\* C2, amended: when every extracted root command is on the allow-list,
\* getConfirmationDetails returns false (and no descriptor) exactly in
\* non-interactive mode with an approval mode other than YOLO; in interactive
\* mode it never returns false, whatever the allow-list holds.
C2_AllowlistedFalseWhenNonInteractive ==
    /\ (Consulted /\ AllRootsAllowlisted /\ ~is_interactive /\ approvalMode # "yolo")
          => confirmation.kind = "false"
    /\ (Consulted /\ is_interactive) => confirmation.kind # "false"

C2_Witness ==
    /\ ppc = "allowed"
    /\ ~is_interactive
    /\ approvalMode # "yolo"
    /\ command = <<"ls", "-la">>
    /\ allowedTools = {"ls"}
    /\ confirmation.kind = "false"

\* C3, as claimed: in YOLO mode no confirmation descriptor is produced, for any
\* command, interactive or not.
C3_YoloNoDescriptor ==
    (Consulted /\ approvalMode = "yolo") => confirmation.kind # "details"

\* C3, amended: in YOLO mode the non-interactive allow-list check and its denial
\* are never applied, interactive or not, and getConfirmationDetails never
\* answers false: it produces a confirmation descriptor whenever the parser
\* returned a parse, and fails otherwise.
C3_YoloSkipsNonInteractiveCheck ==
    (Consulted /\ approvalMode = "yolo")
        => /\ confirmation.kind # "false"
           /\ confirmation.kind = "details" <=> parserReady
           /\ confirmation.kind = "threw" <=> ~parserReady

C3_Witness ==
    /\ ppc = "asking"
    /\ approvalMode = "yolo"
    /\ ~is_interactive
    /\ AllRootsAllowlisted
    /\ confirmation.kind = "details"

\* C4, as claimed: ProceedAlways and ProceedAlwaysAndSave yield a policy update
\* whose pattern is the deduplicated set of root commands of the stripped
\* command; ProceedOnce and Cancel yield no update and leave the rules unchanged.
C4_UpdateIsRootSet ==
    /\ ppc \in {"ProceedAlways", "ProceedAlwaysAndSave"}
          => /\ policyUpdate.kind = "roots"
             /\ NoDuplicates(policyUpdate.commandPrefix)
             /\ Elements(policyUpdate.commandPrefix) = Elements(StrippedRoots)
    /\ ppc \in {"ProceedOnce", "Cancel"}
          => policyUpdate.kind = "none" /\ rules = {}

\* C4, amended: ProceedAlways and ProceedAlwaysAndSave yield a policy update
\* whose pattern is the deduplicated set of root commands of the stripped
\* command when that set is not empty, and the raw command otherwise;
\* ProceedOnce and Cancel yield no update and leave the rules unchanged.
C4_UpdateIsRootSetOrRaw ==
    /\ (ppc \in {"ProceedAlways", "ProceedAlwaysAndSave"} /\ StrippedRoots # <<>>)
          => /\ policyUpdate.kind = "roots"
             /\ NoDuplicates(policyUpdate.commandPrefix)
             /\ Elements(policyUpdate.commandPrefix) = Elements(StrippedRoots)
             /\ rules = {policyUpdate.commandPrefix}
    /\ (ppc \in {"ProceedAlways", "ProceedAlwaysAndSave"} /\ StrippedRoots = <<>>)
          => /\ policyUpdate.kind = "raw"
             /\ policyUpdate.commandPrefix = command
             /\ rules = {command}
    /\ ppc \in {"ProceedOnce", "Cancel"}
          => policyUpdate.kind = "none" /\ rules = {}

C4_Witness ==
    /\ ppc = "ProceedAlways"
    /\ command = <<"sh-c", "ls", "|">> \/ command = <<"ls", "|", "rm">>
    /\ policyUpdate.kind = "roots"
    /\ Len(policyUpdate.commandPrefix) >= 1
    /\ rules # {}

(***************************************************************************)
(* Properties of execute (checked under Spec)                              *)
(***************************************************************************)
InFlight == pc \in {"awaitSpawn", "awaitResult", "awaitAccess", "awaitRead"}

TimeoutFires == ~timeoutAborted /\ timeoutAborted'

EventReceived == evCount' # evCount \/ (lastEvent' = "exit" /\ proc # proc')

\* C5: a run that ends aborted is reported as a timeout if and only if the
\* inactivity timer caused the termination, and as cancelled by the user if and
\* only if the caller's signal caused it.
C5_AbortCauseExact ==
    (pc = "returned" /\ ret.llm \in {"timeout", "cancelled"})
        => /\ ret.llm = "timeout" <=> cause = "timeout"
           /\ ret.llm = "cancelled" <=> cause = "caller"

\* C6, as claimed (last part): whenever the timeout token has fired on a run
\* that spawned a process, the run ends with the result marked
\* aborted-by-timeout.
C6_FiringMarksTimeout ==
    (pc = "returned" /\ pid # None /\ timeoutAborted) => ret.llm = "timeout"

\* C6, amended: with a positive timeout at most one inactivity timer is armed
\* (none with a timeout of zero); every received event cancels it and arms a new
\* one for the full timeout; the token fires only once the full timeout has
\* elapsed since the last arm; its firing aborts the combined signal handed to
\* the execution service, and a result that ends aborted after the token fired
\* is reported with the timeout message.
C6_SingleRollingTimer ==
    /\ [](/\ Cardinality(timers) <= 1
          /\ timeoutMs <= 0 => timers = {}
          /\ (pc = "returned" /\ timeoutAborted /\ result.aborted)
                => ret.llm = "timeout")
    /\ [][/\ (EventReceived /\ timeoutMs > 0) => timers' = {now + timeoutMs}
          /\ TimeoutFires => /\ timeoutTimer # None
                             /\ now >= timeoutTimer
                             /\ combinedAborted']_vars

C6_Witness ==
    /\ pc = "returned"
    /\ evCount > 1
    /\ lastEvent = "exit"
    /\ timeoutAborted
    /\ cause = "timeout"
    /\ ret.llm = "timeout"

\* C7: while execute is in flight the combined signal is aborted exactly when
\* the caller's signal or the timeout signal has fired, and its abort transition
\* happens once, whichever source fires first and also when both fire.
C7_MergedAbortOnce ==
    /\ abortDispatches <= 1
    /\ combinedAborted <=> abortDispatches = 1
    /\ InFlight => (combinedAborted <=> (signalAborted \/ timeoutAborted))
    /\ combinedAborted => cause \in {"caller", "timeout"}

C7_Witness ==
    /\ InFlight
    /\ signalAborted
    /\ timeoutAborted
    /\ cause = "timeout"
    /\ abortDispatches = 1

\* C8: when execute has returned or thrown, no timer that it armed is pending
\* and no abort listener that it registered is still registered.
C8_AllReleasedOnExit ==
    Terminal => /\ timers = {}
                /\ bgTimer = None
                /\ listeners = {}

\* C9: the pid-report file is read at most once and only after the process
\* result is available, and at the moment execute returns or throws the file
\* does not exist.
C9_TempFileReadOnceAndDeleted ==
    /\ [](readCount <= 1 /\ (readCount > 0 => result.resolved))
    /\ [][(~Terminal /\ Terminal') => ~tempFileExists']_vars

C9_Witness ==
    /\ pc = "threw"
    /\ readCount = 1
    /\ result.aborted
    /\ ~tempFileExists

SinkCalled == sinkCount' # sinkCount

BinaryKinds == {"binaryDetected", "binaryProgress"}

C12_BinaryModeIrreversible ==
    /\ []((binarySeen /\ updateOutput) => isBinaryStream)
    /\ [][(binarySeen /\ evCount' # evCount)
            => /\ binarySeen'
               /\ lastEvent' = "data"
                     => /\ ~SinkCalled
                        /\ cumulativeOutput' = cumulativeOutput
                        /\ lastSink' = lastSink
               /\ SinkCalled => lastSink'.kind \in BinaryKinds
               /\ updateOutput => cumulativeOutput' \in BinaryKinds]_vars

C12_Witness ==
    /\ updateOutput
    /\ binarySeen
    /\ evCount > 1
    /\ lastEvent = "data"
    /\ sinkCount = 1
    /\ lastSink.kind = "binaryDetected"
    /\ cumulativeOutput = "binaryDetected"

\* C13: a binary_progress event reaches the sink only when more than
\* OUTPUT_UPDATE_INTERVAL_MS have passed since the last call of the sink, so
\* a forwarded progress update is more than one interval later than the
\* update forwarded before it.
C13_ProgressThrottled ==
    [][(SinkCalled /\ lastEvent' = "binary_progress")
          => /\ lastSink'.kind = "binaryProgress"
             /\ lastSink'.at = now
             /\ lastSink # NoSink
                   => lastSink'.at - lastSink.at > OUTPUT_UPDATE_INTERVAL_MS]_vars

C13_Witness ==
    /\ sinkCount = 2
    /\ lastEvent = "binary_progress"
    /\ lastSink.kind = "binaryProgress"
    /\ lastSink.at > OUTPUT_UPDATE_INTERVAL_MS

Before(trace, first, second) ==
    \A i, j \in 1..Len(trace) :
        (trace[i] = first /\ trace[j] = second) => i < j

\* C14, as claimed: in every invocation of the callback the event is delivered
\* to the caller's sink before the inactivity timer is reset.
C14_DeliveryBeforeReset == Before(cbTrace, "sink", "reset")

\* C14, amended: every event the callback receives, forwarded to the sink or
\* not, resets the inactivity timer first, before the sink is called; each
\* event of a burst arms its own timer for the full timeout, and the timer
\* fires no earlier than a full timeout after the last received event.
C14_ResetBeforeDelivery ==
    /\ [](Before(cbTrace, "reset", "sink"))
    /\ [][(EventReceived /\ timeoutMs > 0)
            => /\ Head(cbTrace') = "reset"
               /\ timeoutTimer' = now + timeoutMs
               /\ timeoutTimer' \in timers']_vars
    /\ [][TimeoutFires => (timeoutTimer # None /\ now >= timeoutTimer)]_vars

C14_Witness ==
    /\ timeoutMs > 0
    /\ cbTrace = <<"reset", "sink">>
    /\ sinkCount = 2
    /\ lastSink.at = spawnedAt
    /\ timeoutTimer = spawnedAt + timeoutMs

(***************************************************************************)
(* Properties of a request from validation to its result                   *)
(***************************************************************************)
\* C15: when execute has ended it has returned a result object; it never
\* ends by throwing (its promise never rejects).
C15_ExecuteTotal == Terminal => (pc = "returned" /\ ret # NoRet)

Validated == ppc # "created"

\* C16: a command that is empty after trimming, a command with no extractable
\* root command and a working directory outside the workspace are each
\* rejected by the validation with a message; when the directory is found
\* outside the workspace in execute, the result carries the error type
\* PATH_NOT_IN_WORKSPACE; in none of these cases is the execution service
\* invoked or a process spawned.
C16_RejectedBeforeSpawn ==
    /\ (Validated /\ command = <<>>)
          => ppc = "rejected" /\ validateToolParamValues = "Command cannot be empty."
    /\ (Validated /\ commandAllowed /\ command # <<>>
            /\ getCommandRoots(command, shellType) = <<>>)
          => /\ ppc = "rejected"
             /\ validateToolParamValues
                   = "Could not identify command root to obtain permission from user."
    /\ (Validated /\ has_dir_path /\ ~pathOk)
          => ppc = "rejected" /\ validateToolParamValues # "ok"
    /\ ppc = "rejected"
          => serviceCalls = 0 /\ pc = "created" /\ proc = "none" /\ pid = None
    /\ ~pathOk => serviceCalls = 0 /\ proc = "none" /\ pid = None
    /\ (pc = "returned" /\ ~pathOk /\ ret.llm # "precancelled")
          => ret.llm = "pathError" /\ ret.errorType = "PATH_NOT_IN_WORKSPACE"

C16_Witness ==
    /\ pc = "returned"
    /\ ~has_dir_path
    /\ ~pathOk
    /\ ppc = "ProceedOnce"
    /\ ret.errorType = "PATH_NOT_IN_WORKSPACE"
    /\ serviceCalls = 0

\* C17: a request whose signal is already aborted when execute is entered
\* returns the cancelled-before-start result at once: the execution service
\* is not invoked, no process exists, no inactivity timer is armed, no abort
\* listener is registered and the pid-report file is not created.
C17_PreCancelledNeverSpawns ==
    /\ [][(pc = "created" /\ pc' # "created" /\ signalAborted)
            => (pc' = "returned" /\ ret'.llm = "precancelled")]_vars
    /\ [](ret.llm = "precancelled"
            => /\ pc = "returned"
               /\ signalAborted
               /\ serviceCalls = 0
               /\ proc = "none" /\ pid = None /\ evCount = 0
               /\ timers = {} /\ timeoutTimer = None
               /\ listeners = {} /\ abortDispatches = 0
               /\ ~tempFileExists)

C17_Witness ==
    /\ pc = "returned"
    /\ ret.llm = "precancelled"
    /\ signalAborted
    /\ timeoutMs > 0
    /\ collectBackgroundPids
    /\ now > timeoutMs

PendingConfirmation == ppc = "asking"

Refused == ppc \in {"rejected", "failed", "Cancel"}

\* C18: a request is pending confirmation, running or terminal, never two of
\* them: while it is pending confirmation, and after it was rejected or
\* cancelled, execute has not been entered; the execution service is invoked
\* at most once, and only for a request that was allowed or that the user let
\* proceed; a process runs only while execute is in flight; and once execute
\* has ended no service call, process or event follows and its result stays.
C18_RequestLifecycle ==
    /\ [](/\ serviceCalls <= 1
          /\ (PendingConfirmation \/ Refused)
                => (pc = "created" /\ serviceCalls = 0 /\ proc = "none")
          /\ PendingConfirmation => confirmation.kind = "details"
          /\ InFlight => (ppc \in Approved /\ serviceCalls = 1)
          /\ proc = "running" => (InFlight /\ serviceCalls = 1)
          /\ Terminal => (ppc \in Approved /\ proc # "running"))
    /\ [][Terminal => /\ Terminal'
                      /\ ret' = ret
                      /\ serviceCalls' = serviceCalls
                      /\ proc' = proc /\ pid' = pid
                      /\ evCount' = evCount /\ lastEvent' = lastEvent
                      /\ sinkCount' = sinkCount]_vars

C18_Witness ==
    /\ pc = "returned"
    /\ ppc = "ProceedAlways"
    /\ confirmation.kind = "details"
    /\ serviceCalls = 1
    /\ evCount > 1
    /\ proc = "exited"
    /\ ret.llm = "completed"

(***************************************************************************)
(* Properties of the message of an aborted run (checked under Spec)        *)
(***************************************************************************)
Blank(text) == text \in {"", " "}

ExpectedTail == IF Blank(result.output) THEN "noOutput" ELSE "output"

\* the number of tenths of a minute that a cited "w.d minutes" stands for
Tenths(minutes) == minutes[1] * 10 + minutes[2]

\* C19: a run aborted by the caller returns the message of a command cancelled
\* by the user before it could complete, followed by the partial output when
\* the output has a non-blank character and by the no-output note otherwise,
\* one of the two and never both.
C19_CallerAbortMessage ==
    (pc = "returned" /\ result.aborted /\ cause = "caller")
        => /\ ret.llm = "cancelled"
           /\ ret.minutes = <<>>
           /\ ret.tail \in {"output", "noOutput"}
           /\ ret.tail = ExpectedTail

\* C20: a run terminated by the inactivity timeout returns the timeout
\* message, which cites the configured timeout in minutes with one decimal,
\* the nearest tenth of a minute (100 ms is cited as 0.0), followed by the
\* partial output or the no-output note; and that message is returned for no
\* run that the caller aborted, so that the two results can be told apart.
C20_TimeoutMessage ==
    /\ (pc = "returned" /\ result.aborted /\ cause = "timeout")
          => /\ ret.llm = "timeout"
             /\ Len(ret.minutes) = 2
             /\ ret.minutes[2] \in 0..9
             /\ Tenths(ret.minutes) * 6000 - timeoutMs \in (0 - 2999)..3000
             /\ timeoutMs = TickMs => ret.minutes = <<0, 0>>
             /\ ret.tail = ExpectedTail
    /\ (pc = "returned" /\ result.aborted /\ cause = "caller")
          => ret.llm # "timeout"

(***************************************************************************)
(* Parse failures in the confirmation path (checked under SpecPolicy)      *)
(***************************************************************************)
ParseFailed ==
    LET parsed == parseCommandDetails(stripShellWrapper(command))
    IN parsed.isNull \/ parsed.hasError \/ parsed.details = <<>>

FallbackLabel ==
    LET cmd == stripShellWrapper(command)
    IN <<IF cmd # <<>> THEN Head(cmd) ELSE "shell command">>
         \o (IF hasRedirection(cmd) THEN <<"redirection">> ELSE <<>>)

\* C29: when parseCommandDetails returns nothing, reports an error or yields
\* no details, getConfirmationDetails does not throw: it answers false or
\* returns a confirmation descriptor, and the label of the descriptor is the
\* first token of the stripped command (or "shell command"), followed by
\* "redirection" exactly when the command has a redirection.
C29_ParseFailureFallsBack ==
    (Consulted /\ ParseFailed)
        => /\ confirmation.kind \in {"details", "false"}
           /\ confirmation.kind = "details"
                 => confirmation.rootCommand = FallbackLabel


(***************************************************************************)
(* The assembled result                                                    *)
(***************************************************************************)
\* the run ended in the background branch of lines 364-370
BackgroundBranch ==
    /\ pc = "returned"
    /\ result.resolved
    /\ ~result.aborted
    /\ is_background \/ result.backgrounded

\* C21: every backgrounded result, background-intended or detected, has the
\* message that reports the process id and carries the data payload with the
\* process id, the literal command and the initial output, in every
\* configuration, summarization included
C21_BackgroundedCarriesPayload ==
    BackgroundBranch
        => /\ ret.llm = "background"
           /\ ret.pid = result.pid
           /\ ret.data = [present |-> TRUE, pid |-> result.pid, command |-> command,
                          initialOutput |-> result.output]

\* the run came to the assembly as a completed one: neither aborted nor
\* backgrounded
CompletedRun == assembled.llm = "completed"

\* the lines of the pid-report file the run has read
ReportedLines == IF readCount > 0 THEN pgrepLines ELSE <<>>

\* a line naming a process other than the primary one
NamesBackgroundPid(line) == IsDecimal(line) /\ Number(line) # result.pid

LineOrder == <<"Output", "Error", "Exit Code", "Signal", "Background PIDs",
               "Process Group PGID">>

LineApplies(kind) ==
    CASE kind = "Output" -> TRUE
      [] kind = "Error" -> result.error
      [] kind = "Exit Code" -> result.exitCode # None /\ result.exitCode # 0
      [] kind = "Signal" -> result.signal # "none"
      [] kind = "Background PIDs" ->
            \E i \in 1..Len(ReportedLines) : NamesBackgroundPid(ReportedLines[i])
      [] kind = "Process Group PGID" -> result.pid # None

\* C22: the message of a run that completes without abort or backgrounding
\* has the lines Output, Error, Exit Code, Signal, Background PIDs, Process
\* Group PGID in this order, the Output line always and each other line
\* exactly when it applies
C22_LinesInOrderWhenApplicable ==
    CompletedRun
        => /\ assembled.lines = SelectSeq(LineOrder, LineApplies)
           /\ assembled.outputLine = IF result.output = "" THEN "(empty)"
                                     ELSE result.output

\* C25: a malformed line of the pid-report file is logged and skipped: it adds
\* no entry to the background pid list and does not fail the run, and only
\* well-formed pids other than the primary pid are reported
C25_MalformedLineSkipped ==
    (CompletedRun /\ readCount > 0)
        => /\ LET named == SelectSeq(pgrepLines, NamesBackgroundPid)
              IN assembled.bgPids = [i \in 1..Len(named) |-> Number(named[i])]
           /\ (\E i \in 1..Len(pgrepLines) : ~IsDecimal(pgrepLines[i]))
                  => "pgrep: line" \in logged

\* execute returned the result of a process that exited with code 0, with
\* empty output, no error, no signal and no abort
SilentSuccess ==
    /\ pc = "returned"
    /\ result.resolved
    /\ ~result.backgrounded
    /\ ~result.aborted
    /\ ~result.error
    /\ result.exitCode = 0
    /\ result.signal = "none"
    /\ result.output = ""

\* C23 as stated: such a run has the empty string as its display message in
\* every configuration of the tool
C23_EmptyDisplayInEveryConfiguration ==
    SilentSuccess => ret.returnDisplay = "empty"

\* C23: outside debug mode and for a request that is not background-intended,
\* a run whose process exits with code 0, with empty output, no error, no
\* signal and no abort has the empty string as its display message, with or
\* without summarization
C23_EmptyDisplayOnSilentSuccess ==
    (SilentSuccess /\ ~debugMode /\ ~is_background) => ret.returnDisplay = "empty"

C23_Witness ==
    /\ SilentSuccess
    /\ ~debugMode
    /\ ~is_background
    /\ summarize
    /\ collectBackgroundPids
    /\ ret.returnDisplay = "empty"

\* the message with every occurrence of the executed command replaced by the
\* literal command
RECURSIVE WithLiteralCommand(_)
WithLiteralCommand(message) ==
    IF message = <<>> THEN <<>>
    ELSE (IF Head(message) = CommandToExecute THEN command ELSE <<Head(message)>>)
         \o WithLiteralCommand(Tail(message))

\* C24: when the command ran in wrapped form, the Error line is the error
\* message with every occurrence of the wrapped command replaced by the
\* user's literal command, and it never contains the wrapper text
C24_ErrorLineShowsLiteralCommand ==
    (CompletedRun /\ result.error /\ collectBackgroundPids)
        => /\ assembled.errorLine = WithLiteralCommand(errorMessage)
           /\ \A i \in 1..Len(assembled.errorLine) :
                  assembled.errorLine[i] # CommandToExecute

\* C26: a missing pid-report file is reported as an error only if the run did
\* not end by abort or backgrounding: after a caller abort, an inactivity
\* timeout or backgrounding it is silent
C26_MissingFileSilentAfterAbort ==
    ("missing pgrep output" \in logged)
        => /\ ~result.aborted
           /\ ~result.backgrounded

\* execute returned a result assembled from the service's result
ReturnedAssembled ==
    /\ pc = "returned"
    /\ assembled # NoRet

\* C27: with summarization configured the assembled message goes to the
\* summarizer and its result replaces llmContent, while returnDisplay is as
\* without summarization and the structured error is preserved; without
\* summarization llmContent is the assembled message unchanged
C27_SummaryReplacesOnlyLlmContent ==
    ReturnedAssembled
        => /\ ret.returnDisplay = returnDisplayMessage(result)
           /\ ret.errorType = executionError(result)
           /\ IF summarize
                THEN ret.llm = "summary"
                ELSE /\ ret.llm = llmContent(result)
                     /\ ret.minutes = assembled.minutes
                     /\ ret.tail = assembled.tail
                     /\ ret.lines = assembled.lines
                     /\ ret.outputLine = assembled.outputLine
                     /\ ret.errorLine = assembled.errorLine
                     /\ ret.bgPids = assembled.bgPids

C27_Witness ==
    /\ ReturnedAssembled
    /\ summarize
    /\ ret.llm = "summary"
    /\ assembled.llm = "completed"
    /\ ret.errorType = "SHELL_EXECUTE_ERROR"
    /\ ret.returnDisplay = "failed"

(***************************************************************************)
(* Unhandled output events                                                 *)
(***************************************************************************)
\* C28: an output event whose tag is none of data, binary_detected,
\* binary_progress and exit is never swallowed: the callback raises an error
\* in every configuration, also when the caller supplied no output sink
C28_UnknownEventRaises ==
    lastEvent = "unknown" => \E i \in 1..Len(cbTrace) : cbTrace[i] = "throw"

(***************************************************************************)
(* Shell profile detection                                                 *)
(***************************************************************************)
\* the names the table of lines 439-448 defines
TableKeys == {"bash", "zsh", "fish", "nu", "nushell", "elvish", "pwsh", "powershell"}

\* C30: detectShellProfileFromEnv returns a profile id exactly when SHELL is
\* set and the lower-cased basename of its value is a key of the fixed table,
\* and none otherwise; every id it returns is a key of the registry
C30_DetectsExactlyTableKeys ==
    detected # "none"
        => IF shellEnv.set /\ toLowerCase(basename(shellEnv.segments)) \in TableKeys
             THEN detected \in DOMAIN SHELL_PROFILE_REGISTRY
             ELSE detected = "undefined"

(***************************************************************************)
(* The persisted pattern and the descriptor shown                          *)
(***************************************************************************)
ProceededAlways == ppc \in {"ProceedAlways", "ProceedAlwaysAndSave"}

\* C32: when root extraction yields nothing for the stripped command,
\* ProceedAlways and ProceedAlwaysAndSave persist the whole raw, unstripped
\* command as the pattern rather than no rule; for a command with at least
\* one root the persisted pattern is the root set and never the raw string
C32_RawCommandPersistedWithoutRoots ==
    ProceededAlways
        => IF getCommandRoots(stripShellWrapper(command), shellType) = <<>>
             THEN /\ policyUpdate = [kind |-> "raw", commandPrefix |-> command]
                  /\ command \in rules
             ELSE /\ policyUpdate.kind = "roots"
                  /\ policyUpdate.commandPrefix
                        = getCommandRoots(stripShellWrapper(command), shellType)
                  /\ policyUpdate.commandPrefix \in rules

C32_Witness ==
    /\ ProceededAlways
    /\ policyUpdate.kind = "raw"
    /\ command # stripShellWrapper(command)
    /\ rules = {command}

\* C33: for every command and shell configuration, the root-command set
\* persisted as an allow-rule on ProceedAlways equals the root-command set
\* shown to the user in the confirmation descriptor of the same request
C33_PersistedRootsAreShownRoots ==
    (ProceededAlways /\ policyUpdate.kind = "roots")
        => Elements(policyUpdate.commandPrefix) = Elements(confirmation.rootCommands)

(***************************************************************************)
(* Background promotion and the end of the run                             *)
(***************************************************************************)
\* ShellExecutionService.background is called in this step
PromotionRequested == bgRequests' = bgRequests + 1

\* C34: background promotion is never requested for a process that has
\* already terminated, nor after execute has returned its result: when a
\* background-intended process exits, is cancelled or times out within the
\* grace period, the pending promotion does not fire afterwards
C34_NoPromotionAfterEnd ==
    [][PromotionRequested => (proc = "running" /\ ~result.resolved /\ ~Terminal)]_vars

\* the outcome class a message names
MessageClass(llm) ==
    CASE llm \in {"timeout", "cancelled"} -> "aborted"
      [] llm = "background" -> "backgrounded"
      [] OTHER -> "completed"

\* the outcome classes a display text agrees with; the bare output of the
\* process names none and agrees with an aborted and with a completed run
DisplayClasses(display) ==
    CASE display \in {"timeout", "cancelled"} -> {"aborted"}
      [] display = "background" -> {"backgrounded"}
      [] display = "output" -> {"aborted", "completed"}
      [] OTHER -> {"completed"}

\* C35: outside debug mode llmContent and returnDisplay of every terminal
\* result describe the same outcome class (aborted, backgrounded, completed);
\* a background-intended run that ended aborted is cancelled in both, and the
\* data payload is present exactly when the message is the backgrounded one
C35_MessageAndDisplayAgree ==
    (ReturnedAssembled /\ ~debugMode)
        => /\ MessageClass(ret.llm) \in DisplayClasses(ret.returnDisplay)
           /\ ret.data.present <=> ret.llm = "background"

(***************************************************************************)
(* A disabled inactivity timeout                                           *)
(***************************************************************************)
\* C36: with an inactivity timeout of zero or less no inactivity timer is ever
\* armed and the timeout token never fires: the run ends aborted only through
\* the caller's signal and is never reported with the timeout message
C36_DisabledTimeoutNeverFires ==
    timeoutMs <= 0
        => /\ timers = {}
           /\ timeoutTimer = None
           /\ ~timeoutAborted
           /\ combinedAborted => signalAborted
           /\ result.aborted => signalAborted
           /\ ret.llm # "timeout"
           /\ ret.returnDisplay # "timeout"
           /\ assembled.llm # "timeout"

C36_Witness ==
    /\ timeoutMs < 0
    /\ pc = "returned"
    /\ lastEvent = "exit"
    /\ result.aborted
    /\ signalAborted
    /\ ret.llm = "cancelled"

(***************************************************************************)
(* The CLI settings resolver                                               *)
(***************************************************************************)
\* a string that is not blank
ValidText(v) == v.type = "string" /\ trim(v.text) \notin {"", "undefined"}

\* the entries of a list that are non-empty strings
ValidEntries(items) ==
    SelectSeq(items, LAMBDA arg : arg.type = "string" /\ arg.text # "")

\* the value the selected profile has in the tables of the resolver in use
ProfileValue ==
    IF settings.profile = "undefined"
      THEN [executable |-> "undefined", argsPrefix |-> <<>>, shell |-> "undefined",
            guidance |-> <<>>, searchCommand |-> "undefined"]
    ELSE IF resolver = "shellConfig.ts"
      THEN [executable |-> PROFILE_DEFAULTS[settings.profile].executable,
            argsPrefix |-> PROFILE_DEFAULTS[settings.profile].argsPrefix,
            shell |-> PROFILE_DEFAULTS[settings.profile].shell,
            guidance |-> PROFILE_GUIDANCE(settings.profile),
            searchCommand |-> PROFILE_SEARCH_COMMAND[settings.profile]]
    ELSE [executable |-> SHELL_PROFILE_REGISTRY[settings.profile].executable,
          argsPrefix |-> SHELL_PROFILE_REGISTRY[settings.profile].argsPrefix,
          shell |-> SHELL_PROFILE_REGISTRY[settings.profile].shellType,
          guidance |-> registryGuidance(settings.profile),
          searchCommand |-> SHELL_PROFILE_REGISTRY[settings.profile].searchCommand]

PickedExecutable ==
    IF ValidText(settings.executable) THEN trim(settings.executable.text)
    ELSE ProfileValue.executable

PickedArgsPrefix ==
    IF settings.argsPrefix.type = "array" /\ ValidEntries(settings.argsPrefix.items) # <<>>
      THEN [i \in 1..Len(ValidEntries(settings.argsPrefix.items)) |->
               ValidEntries(settings.argsPrefix.items)[i].text]
      ELSE ProfileValue.argsPrefix

PickedShell ==
    IF ValidText(Str(settings.shellType)) THEN settings.shellType
    ELSE ProfileValue.shell

AllAbsent ==
    /\ PickedExecutable = "undefined"
    /\ PickedArgsPrefix = <<>>
    /\ PickedShell = "undefined"

\* C37: the resolver picks each of executable, argsPrefix and shell on its
\* own: the explicit setting when it is valid (a string that is not blank,
\* trimmed; the non-empty strings of a list that has one), otherwise the
\* value of the selected profile; it returns undefined exactly when all three
\* are absent; a blank custom guidance or search command falls back to the
\* value of the profile
C37_EachFieldExplicitOrProfile ==
    resolved.called
        => /\ resolved.override.defined <=> ~AllAbsent
           /\ resolved.override.defined
                 => /\ resolved.override.executable = PickedExecutable
                    /\ resolved.override.argsPrefix = PickedArgsPrefix
                    /\ resolved.override.shell = PickedShell
           /\ resolved.guidance = IF ValidText(settings.guidance)
                                    THEN <<trim(settings.guidance.text)>>
                                    ELSE ProfileValue.guidance
           /\ resolved.searchCommand = IF ValidText(settings.searchCommand)
                                         THEN trim(settings.searchCommand.text)
                                         ELSE ProfileValue.searchCommand

\* C38: for every profile id the defaults the CLI settings resolver applies
\* (executable, argument prefix, effective shell kind, search command) equal
\* the values of the same profile in the core registry, so resolving a
\* profile through the resolver and through getShellConfigurationFromProfile
\* gives the same recipe
C38_ResolverDefaultsEqualRegistry ==
    (resolved.called /\ settings = [NoSettings EXCEPT !.profile = settings.profile]
        /\ settings.profile # "undefined")
        => /\ resolved.override = getShellConfigurationFromProfile(settings.profile)
           /\ resolved.searchCommand
                 = SHELL_PROFILE_REGISTRY[settings.profile].searchCommand

====
